---------------------------- MODULE Spec2Model ----------------------------
(***************************************************************************)
(* pelicanconf.py: the settings module of a Pelican site.  The module is   *)
(* a straight-line sequence of statements, one `from __future__` import    *)
(* followed by sixteen assignments of a constant or of another name.       *)
(* Executing it statement by statement fills the module namespace          *)
(* (globals); the site generator then reads the upper-case names of that   *)
(* namespace as its settings.                                              *)
(*                                                                         *)
(* Python strings are modelled as sequences of one-character strings, so   *)
(* that prefixes, suffixes and placeholders are computed, not assumed.     *)
(***************************************************************************)
EXTENDS Integers, Sequences, FiniteSets, TLC

VARIABLES pc, status, globals, reads

vars == <<pc, status, globals, reads>>

\* Number of settings the generator reads in one modelled generation run.
MaxReads == 2

-----------------------------------------------------------------------------
(* Python values *)

PyStr(s) == [type |-> "str", str |-> s, int |-> 0]
PyInt(n) == [type |-> "int", str |-> <<>>, int |-> n]
\* the __future__._Feature object a `from __future__ import` binds
Feature == [type |-> "feature", str |-> <<>>, int |-> 0]

(* Expressions on the right-hand side of an assignment *)
Const(v) == [kind |-> "const", value |-> v, id |-> <<>>]
Name(n)  == [kind |-> "name", value |-> Feature, id |-> n]

(* Statements *)
Assign(target, rhs) == [op |-> "assign", target |-> target, rhs |-> rhs]
ImportFrom(name)    == [op |-> "import", target |-> name, rhs |-> Const(Feature)]

-----------------------------------------------------------------------------
(* The statements of pelicanconf.py, each under the name it binds *)

unicode_literals == ImportFrom(<<"u","n","i","c","o","d","e","_","l","i","t","e","r","a","l","s">>)

AUTHOR == Assign(<<"A","U","T","H","O","R">>, Const(PyStr(<<"J","o","s","h","u","a"," ","R","."," ","R","o","d","g","e","r","s">>)))

SITENAME == Assign(<<"S","I","T","E","N","A","M","E">>, Const(PyStr(<<"T","h","e"," ","E","n","g","i","n","e","r","d">>)))

\* Mutant: the site URL written with a trailing slash.
SITEURL_trailingSlash == Assign(<<"S","I","T","E","U","R","L">>, Const(PyStr(<<"h","t","t","p",":","/","/","m","r","-","b","y","t","e",".","g","i","t","h","u","b",".","i","o","/","b","l","o","g","/">>)))
SITEURL == Assign(<<"S","I","T","E","U","R","L">>, Const(PyStr(<<"h","t","t","p",":","/","/","m","r","-","b","y","t","e",".","g","i","t","h","u","b",".","i","o","/","b","l","o","g">>)))

\* Mutant: the GitHub link assigned to SITEURL, rebinding it.
GITHUB_URL_rebindsSiteUrl == Assign(<<"S","I","T","E","U","R","L">>, Const(PyStr(<<"h","t","t","p",":","/","/","g","i","t","h","u","b",".","c","o","m","/","m","r","-","b","y","t","e","/","b","l","o","g">>)))
GITHUB_URL == Assign(<<"G","I","T","H","U","B","_","U","R","L">>, Const(PyStr(<<"h","t","t","p",":","/","/","g","i","t","h","u","b",".","c","o","m","/","m","r","-","b","y","t","e","/","b","l","o","g">>)))

\* Mutant: the content directory left empty.
PATH_empty == Assign(<<"P","A","T","H">>, Const(PyStr(<<>>)))
PATH == Assign(<<"P","A","T","H">>, Const(PyStr(<<"P","r","o","g","r","a","m","m","i","n","g">>)))

TIMEZONE == Assign(<<"T","I","M","E","Z","O","N","E">>, Const(PyStr(<<"A","m","e","r","i","c","a","/","D","e","n","v","e","r">>)))

DEFAULT_LANG == Assign(<<"D","E","F","A","U","L","T","_","L","A","N","G">>, Const(PyStr(<<"e","n">>)))

\* Mutant: the feed domain written as a literal of its own.
FEED_DOMAIN_literal == Assign(<<"F","E","E","D","_","D","O","M","A","I","N">>, Const(PyStr(<<"h","t","t","p",":","/","/","m","r","-","b","y","t","e",".","g","i","t","h","u","b",".","i","o">>)))
FEED_DOMAIN == Assign(<<"F","E","E","D","_","D","O","M","A","I","N">>, Name(<<"S","I","T","E","U","R","L">>))

FEED_ALL_ATOM == Assign(<<"F","E","E","D","_","A","L","L","_","A","T","O","M">>, Const(PyStr(<<"a","t","o","m",".","x","m","l">>)))

\* Mutant: the category feed written as a str.format template.
CATEGORY_FEED_ATOM_brace == Assign(<<"C","A","T","E","G","O","R","Y","_","F","E","E","D","_","A","T","O","M">>, Const(PyStr(<<"c","a","t","e","g","o","r","i","e","s","/","{","s","l","u","g","}","/","a","t","o","m",".","x","m","l">>)))
CATEGORY_FEED_ATOM == Assign(<<"C","A","T","E","G","O","R","Y","_","F","E","E","D","_","A","T","O","M">>, Const(PyStr(<<"c","a","t","e","g","o","r","i","e","s","/","%","s","/","a","t","o","m",".","x","m","l">>)))

ARTICLE_URL == Assign(<<"A","R","T","I","C","L","E","_","U","R","L">>, Const(PyStr(<<"b","l","o","g","/","{","d","a","t","e",":","%","Y","}","/","{","d","a","t","e",":","%","m","}","/","{","d","a","t","e",":","%","d","}","/","{","s","l","u","g","}","/">>)))

ARTICLE_SAVE_AS == Assign(<<"A","R","T","I","C","L","E","_","S","A","V","E","_","A","S">>, Const(PyStr(<<"b","l","o","g","/","{","d","a","t","e",":","%","Y","}","/","{","d","a","t","e",":","%","m","}","/","{","d","a","t","e",":","%","d","}","/","{","s","l","u","g","}","/","i","n","d","e","x",".","h","t","m","l">>)))

\* Mutant: the archive path assigned to ARCHIVES_URL.
ARCHIVES_SAVE_AS_asUrl == Assign(<<"A","R","C","H","I","V","E","S","_","U","R","L">>, Const(PyStr(<<"b","l","o","g","/","a","r","c","h","i","v","e","s","/","i","n","d","e","x",".","h","t","m","l">>)))
ARCHIVES_SAVE_AS == Assign(<<"A","R","C","H","I","V","E","S","_","S","A","V","E","_","A","S">>, Const(PyStr(<<"b","l","o","g","/","a","r","c","h","i","v","e","s","/","i","n","d","e","x",".","h","t","m","l">>)))

CATEGORY_URL == Assign(<<"C","A","T","E","G","O","R","Y","_","U","R","L">>, Const(PyStr(<<"c","a","t","e","g","o","r","i","e","s","/","{","s","l","u","g","}","/">>)))

\* Mutant: the category output directory spelt differently from its URL.
CATEGORY_SAVE_AS_singular == Assign(<<"C","A","T","E","G","O","R","Y","_","S","A","V","E","_","A","S">>, Const(PyStr(<<"c","a","t","e","g","o","r","y","/","{","s","l","u","g","}","/","i","n","d","e","x",".","h","t","m","l">>)))
CATEGORY_SAVE_AS == Assign(<<"C","A","T","E","G","O","R","Y","_","S","A","V","E","_","A","S">>, Const(PyStr(<<"c","a","t","e","g","o","r","i","e","s","/","{","s","l","u","g","}","/","i","n","d","e","x",".","h","t","m","l">>)))

\* Mutant: pagination of zero items per page.
DEFAULT_PAGINATION_zero == Assign(<<"D","E","F","A","U","L","T","_","P","A","G","I","N","A","T","I","O","N">>, Const(PyInt(0)))
DEFAULT_PAGINATION == Assign(<<"D","E","F","A","U","L","T","_","P","A","G","I","N","A","T","I","O","N">>, Const(PyInt(10)))

\* Mutant: FEED_DOMAIN assigned before SITEURL.
Program_feedDomainFirst ==
    << unicode_literals,
       AUTHOR, SITENAME, FEED_DOMAIN, SITEURL,
       GITHUB_URL,
       PATH,
       TIMEZONE,
       DEFAULT_LANG,
       FEED_ALL_ATOM, CATEGORY_FEED_ATOM,
       ARTICLE_URL, ARTICLE_SAVE_AS,
       ARCHIVES_SAVE_AS,
       CATEGORY_URL, CATEGORY_SAVE_AS,
       DEFAULT_PAGINATION >>

\* The module body, top to bottom.
Program ==
    << unicode_literals,
       AUTHOR, SITENAME, SITEURL,
       GITHUB_URL,
       PATH,
       TIMEZONE,
       DEFAULT_LANG,
       FEED_DOMAIN, FEED_ALL_ATOM, CATEGORY_FEED_ATOM,
       ARTICLE_URL, ARTICLE_SAVE_AS,
       ARCHIVES_SAVE_AS,
       CATEGORY_URL, CATEGORY_SAVE_AS,
       DEFAULT_PAGINATION >>

-----------------------------------------------------------------------------
(* Execution of the module body *)

Bound(g, n) == n \in DOMAIN g

\* STORE_NAME: bind n to v in namespace g, replacing any earlier binding.
Store(g, n, v) == [m \in (DOMAIN g) \cup {n} |-> IF m = n THEN v ELSE g[m]]

\* LOAD_CONST / LOAD_NAME: can the expression be evaluated in g, and to what.
\* (No name read by this module is a builtin, so the namespace decides.)
Defined(e, g) == e.kind = "const" \/ Bound(g, e.id)
Eval(e, g) == IF e.kind = "const" THEN e.value ELSE g[e.id]

Init ==
    /\ pc = 1
    /\ status = "loading"
    /\ globals = <<>>
    /\ reads = <<>>

\* `from __future__ import unicode_literals`: binds the feature object.
ExecImport ==
    /\ status = "loading"
    /\ pc <= Len(Program)
    /\ Program[pc].op = "import"
    /\ globals' = Store(globals, Program[pc].target, Feature)
    /\ pc' = pc + 1
    /\ UNCHANGED <<status, reads>>

\* `TARGET = expr`: evaluate the right-hand side, then bind the target.
\* Reading a name that is not bound raises NameError and ends the load.
ExecAssign ==
    /\ status = "loading"
    /\ pc <= Len(Program)
    /\ Program[pc].op = "assign"
    /\ IF Defined(Program[pc].rhs, globals)
       THEN /\ globals' = Store(globals, Program[pc].target,
                                Eval(Program[pc].rhs, globals))
            /\ pc' = pc + 1
            /\ UNCHANGED status
       ELSE /\ status' = "NameError"
            /\ UNCHANGED <<globals, pc>>
    /\ UNCHANGED reads

\* End of the module body: the load has succeeded.
EndOfModule ==
    /\ status = "loading"
    /\ pc = Len(Program) + 1
    /\ status' = "loaded"
    /\ UNCHANGED <<pc, globals, reads>>

-----------------------------------------------------------------------------
(* The generator's view of the loaded module *)

UpperLetters == {"A","B","C","D","E","F","G","H","I","J","K","L","M",
                 "N","O","P","Q","R","S","T","U","V","W","X","Y","Z"}
LowerLetters == {"a","b","c","d","e","f","g","h","i","j","k","l","m",
                 "n","o","p","q","r","s","t","u","v","w","x","y","z"}

\* str.isupper(): no lower-case letter and at least one upper-case letter.
IsUpper(n) ==
    /\ \A i \in 1..Len(n) : n[i] \notin LowerLetters
    /\ \E i \in 1..Len(n) : n[i] \in UpperLetters

\* The names of a namespace the generator takes as settings.
SettingKeys(g) == {n \in DOMAIN g : IsUpper(n)}

\* During the generation run the generator looks a setting up; the module
\* is not written to.
ReadSetting(k) ==
    /\ status = "loaded"
    /\ Len(reads) < MaxReads
    /\ reads' = Append(reads, [key |-> k, value |-> globals[k]])
    /\ UNCHANGED <<pc, status, globals>>

Next ==
    \/ ExecImport
    \/ ExecAssign
    \/ EndOfModule
    \/ \E k \in SettingKeys(globals) : ReadSetting(k)

Spec == Init /\ [][Next]_vars

-----------------------------------------------------------------------------
(* String and template helpers used by the properties *)

StartsWith(s, p) == Len(p) <= Len(s) /\ SubSeq(s, 1, Len(p)) = p
EndsWith(s, p) == Len(p) <= Len(s) /\ SubSeq(s, Len(s) - Len(p) + 1, Len(s)) = p
Contains(s, c) == \E i \in 1..Len(s) : s[i] = c
Count(s, c) == Cardinality({i \in 1..Len(s) : s[i] = c})

\* Positions i where s[i] and s[i+1] are both '/'.
DoubledSlashes(s) == {i \in 1..(Len(s) - 1) : s[i] = "/" /\ s[i + 1] = "/"}

\* Index of the first '}' at or after position i, Len(s) + 1 if there is none.
RECURSIVE CloseAt(_, _)
CloseAt(s, i) ==
    IF i > Len(s) THEN Len(s) + 1
    ELSE IF s[i] = "}" THEN i ELSE CloseAt(s, i + 1)

\* The replacement fields of a str.format template, in order of appearance:
\* the text between each '{' and the next '}'.
RECURSIVE FieldsFrom(_, _)
FieldsFrom(s, i) ==
    IF i > Len(s) THEN <<>>
    ELSE IF s[i] = "{"
         THEN <<SubSeq(s, i + 1, CloseAt(s, i + 1) - 1)>>
                  \o FieldsFrom(s, CloseAt(s, i + 1) + 1)
         ELSE FieldsFrom(s, i + 1)
Fields(s) == FieldsFrom(s, 1)

\* The literal text of a str.format template: everything outside the fields.
RECURSIVE LiteralFrom(_, _)
LiteralFrom(s, i) ==
    IF i > Len(s) THEN <<>>
    ELSE IF s[i] = "{"
         THEN LiteralFrom(s, CloseAt(s, i + 1) + 1)
         ELSE <<s[i]>> \o LiteralFrom(s, i + 1)
Literal(s) == LiteralFrom(s, 1)

\* The field name of a replacement field: the text before the first ':'.
RECURSIVE FieldName(_)
FieldName(f) ==
    IF f = <<>> \/ Head(f) = ":" THEN <<>>
    ELSE <<Head(f)>> \o FieldName(Tail(f))

\* Number of '%s' conversions of a %-format string.
PercentS(s) == Cardinality({i \in 1..(Len(s) - 1) : s[i] = "%" /\ s[i + 1] = "s"})

IsStr(g, n) == Bound(g, n) /\ g[n].type = "str"

\* Position in Program of the statement binding name n (0 if none).
StmtIndex(n) ==
    IF \E i \in 1..Len(Program) : Program[i].target = n
    THEN CHOOSE i \in 1..Len(Program) : Program[i].target = n
    ELSE 0

INDEX_HTML == <<"i","n","d","e","x",".","h","t","m","l">>
ARCHIVES_URL_name == <<"A","R","C","H","I","V","E","S","_","U","R","L">>

\* X_SAVE_AS for a name X_URL.
SaveAsOf(u) == SubSeq(u, 1, Len(u) - 4) \o <<"_","S","A","V","E","_","A","S">>
\* The names X_URL bound in g whose X_SAVE_AS is bound in g too.
UrlSavePairs(g) ==
    {u \in DOMAIN g : EndsWith(u, <<"_","U","R","L">>) /\ Bound(g, SaveAsOf(u))}

-----------------------------------------------------------------------------
\* C1: FEED_DOMAIN is assigned from the name SITEURL, not from a literal of
\* its own, and whenever FEED_DOMAIN is bound it holds the same string as
\* SITEURL.
C1_FeedDomainIsSiteUrl ==
    Bound(globals, FEED_DOMAIN.target) =>
        /\ Bound(globals, SITEURL.target)
        /\ globals[FEED_DOMAIN.target] = globals[SITEURL.target]
        /\ FEED_DOMAIN.rhs = Name(SITEURL.target)

C1_Witness ==
    /\ IsStr(globals, FEED_DOMAIN.target)
    /\ globals[FEED_DOMAIN.target].str = <<"h","t","t","p",":","/","/","m","r","-","b","y","t","e",".","g","i","t","h","u","b",".","i","o","/","b","l","o","g">>

-----------------------------------------------------------------------------
\* C2: the X_URL / X_SAVE_AS pairs of the configuration are ARTICLE and
\* CATEGORY, and for each pair X_SAVE_AS is the X_URL string followed by
\* "index.html", with the same replacement fields in the same order.
C2_SaveAsIsUrlPlusIndex ==
    /\ \A u \in UrlSavePairs(globals) :
          /\ globals[u].type = "str"
          /\ globals[SaveAsOf(u)].type = "str"
          /\ globals[SaveAsOf(u)].str = globals[u].str \o INDEX_HTML
          /\ Fields(globals[SaveAsOf(u)].str) = Fields(globals[u].str)
    /\ status = "loaded" =>
          UrlSavePairs(globals) = {ARTICLE_URL.target, CATEGORY_URL.target}

C2_Witness ==
    /\ status = "loaded"
    /\ ARTICLE_URL.target \in UrlSavePairs(globals)
    /\ CATEGORY_URL.target \in UrlSavePairs(globals)
    /\ Len(Fields(globals[ARTICLE_SAVE_AS.target].str)) = 4

-----------------------------------------------------------------------------
\* C3 as claimed: once loaded, ARTICLE, ARCHIVES and CATEGORY each have both
\* a *_URL and a *_SAVE_AS setting.
C3_AllThreeGroupsHaveBoth ==
    status = "loaded" =>
        /\ Bound(globals, ARTICLE_URL.target)
        /\ Bound(globals, ARTICLE_SAVE_AS.target)
        /\ Bound(globals, ARCHIVES_URL_name)
        /\ Bound(globals, ARCHIVES_SAVE_AS.target)
        /\ Bound(globals, CATEGORY_URL.target)
        /\ Bound(globals, CATEGORY_SAVE_AS.target)

\* C3 amended: once loaded, ARTICLE and CATEGORY each have both a *_URL and a
\* *_SAVE_AS setting; the archives group has ARCHIVES_SAVE_AS only, and
\* ARCHIVES_URL is never bound, so ARCHIVES_SAVE_AS is the one *_SAVE_AS
\* setting without a *_URL setting to compare against.
C3_ArticleAndCategoryHaveBoth ==
    /\ ~Bound(globals, ARCHIVES_URL_name)
    /\ status = "loaded" =>
          /\ Bound(globals, ARTICLE_URL.target)
          /\ Bound(globals, ARTICLE_SAVE_AS.target)
          /\ Bound(globals, ARCHIVES_SAVE_AS.target)
          /\ Bound(globals, CATEGORY_URL.target)
          /\ Bound(globals, CATEGORY_SAVE_AS.target)
          /\ {s \in DOMAIN globals :
                 /\ EndsWith(s, <<"_","S","A","V","E","_","A","S">>)
                 /\ \A u \in UrlSavePairs(globals) : SaveAsOf(u) # s}
               = {ARCHIVES_SAVE_AS.target}

C3_Witness ==
    /\ status = "loaded"
    /\ IsStr(globals, ARCHIVES_SAVE_AS.target)
    /\ ~Bound(globals, ARCHIVES_URL_name)
    /\ Cardinality({s \in DOMAIN globals : EndsWith(s, <<"_","S","A","V","E","_","A","S">>)}) = 3

-----------------------------------------------------------------------------
\* The keys of the documented interface table and their documented types.
TableKeys ==
    { <<"A","U","T","H","O","R">>, <<"S","I","T","E","N","A","M","E">>, <<"S","I","T","E","U","R","L">>, <<"G","I","T","H","U","B","_","U","R","L">>, <<"P","A","T","H">>, <<"T","I","M","E","Z","O","N","E">>,
      <<"D","E","F","A","U","L","T","_","L","A","N","G">>, <<"F","E","E","D","_","D","O","M","A","I","N">>, <<"F","E","E","D","_","A","L","L","_","A","T","O","M">>, <<"C","A","T","E","G","O","R","Y","_","F","E","E","D","_","A","T","O","M">>,
      <<"A","R","T","I","C","L","E","_","U","R","L">>, <<"A","R","T","I","C","L","E","_","S","A","V","E","_","A","S">>, <<"A","R","C","H","I","V","E","S","_","S","A","V","E","_","A","S">>, <<"C","A","T","E","G","O","R","Y","_","U","R","L">>,
      <<"C","A","T","E","G","O","R","Y","_","S","A","V","E","_","A","S">>, <<"D","E","F","A","U","L","T","_","P","A","G","I","N","A","T","I","O","N">> }
TableType(k) == IF k = <<"D","E","F","A","U","L","T","_","P","A","G","I","N","A","T","I","O","N">> THEN "int" ELSE "str"

\* C4: once loaded, the settings are exactly the keys of the interface
\* table, each of its documented type, and every string setting is
\* non-empty.  At no time is a setting outside the table bound.
C4_KeysAreTheTable ==
    /\ SettingKeys(globals) \subseteq TableKeys
    /\ \A k \in SettingKeys(globals) :
          /\ globals[k].type = TableType(k)
          /\ globals[k].type = "str" => Len(globals[k].str) > 0
    /\ status = "loaded" => SettingKeys(globals) = TableKeys

C4_Witness ==
    /\ status = "loaded"
    /\ Cardinality(SettingKeys(globals)) = 16
    /\ Cardinality(DOMAIN globals) = 17
    /\ \A k \in TableKeys : Bound(globals, k)

-----------------------------------------------------------------------------
\* C5: ARTICLE_URL and ARTICLE_SAVE_AS have only {date:...} and {slug}
\* fields, CATEGORY_URL and CATEGORY_SAVE_AS only {slug}; outside the fields
\* these four have no brace and no '%'.  CATEGORY_FEED_ATOM has exactly one
\* '%', which is a '%s', and no brace.  FEED_ALL_ATOM and ARCHIVES_SAVE_AS
\* have no brace and no '%'.
OnlyFields(s, names) ==
    /\ \A i \in 1..Len(Fields(s)) : FieldName(Fields(s)[i]) \in names
    /\ \A i \in 1..Len(Fields(s)) :
          FieldName(Fields(s)[i]) = <<"s","l","u","g">> => Fields(s)[i] = <<"s","l","u","g">>
    /\ \A i \in 1..Len(Fields(s)) : ~Contains(Fields(s)[i], "{")
    /\ Count(s, "{") = Count(s, "}")
    /\ ~Contains(Literal(s), "}")
    /\ ~Contains(Literal(s), "%")
NoPlaceholder(s) ==
    ~Contains(s, "{") /\ ~Contains(s, "}") /\ ~Contains(s, "%")

C5_OnlyDocumentedPlaceholders ==
    /\ \A k \in {ARTICLE_URL.target, ARTICLE_SAVE_AS.target} :
          Bound(globals, k) =>
              /\ OnlyFields(globals[k].str, {<<"d","a","t","e">>, <<"s","l","u","g">>})
              /\ \A i \in 1..Len(Fields(globals[k].str)) :
                    FieldName(Fields(globals[k].str)[i]) = <<"d","a","t","e">> =>
                        StartsWith(Fields(globals[k].str)[i], <<"d","a","t","e",":">>)
    /\ \A k \in {CATEGORY_URL.target, CATEGORY_SAVE_AS.target} :
          Bound(globals, k) => OnlyFields(globals[k].str, {<<"s","l","u","g">>})
    /\ Bound(globals, CATEGORY_FEED_ATOM.target) =>
          /\ PercentS(globals[CATEGORY_FEED_ATOM.target].str) = 1
          /\ Count(globals[CATEGORY_FEED_ATOM.target].str, "%") = 1
          /\ ~Contains(globals[CATEGORY_FEED_ATOM.target].str, "{")
          /\ ~Contains(globals[CATEGORY_FEED_ATOM.target].str, "}")
    /\ \A k \in {FEED_ALL_ATOM.target, ARCHIVES_SAVE_AS.target} :
          Bound(globals, k) => NoPlaceholder(globals[k].str)

C5_Witness ==
    /\ status = "loaded"
    /\ Fields(globals[ARTICLE_URL.target].str)
          = <<<<"d","a","t","e",":","%","Y">>, <<"d","a","t","e",":","%","m">>, <<"d","a","t","e",":","%","d">>, <<"s","l","u","g">>>>
    /\ Fields(globals[CATEGORY_SAVE_AS.target].str) = <<<<"s","l","u","g">>>>
    /\ PercentS(globals[CATEGORY_FEED_ATOM.target].str) = 1
    /\ Fields(globals[FEED_ALL_ATOM.target].str) = <<>>

-----------------------------------------------------------------------------
\* C6: DEFAULT_PAGINATION, once bound, is an integer greater than zero.
C6_PaginationPositive ==
    Bound(globals, DEFAULT_PAGINATION.target) =>
        /\ globals[DEFAULT_PAGINATION.target].type = "int"
        /\ globals[DEFAULT_PAGINATION.target].int > 0

C6_Witness ==
    /\ Bound(globals, DEFAULT_PAGINATION.target)
    /\ globals[DEFAULT_PAGINATION.target] = PyInt(10)

-----------------------------------------------------------------------------
\* C7: a bound name is never rebound or unbound: every assignment of the
\* load binds a name that was not bound before, and once the module is
\* loaded it stays loaded and the namespace never changes again, so
\* FEED_DOMAIN = SITEURL keeps holding and every value the generator has
\* read is still the value of its key.
C7_LoadedOnceThenImmutable ==
    [][ /\ \A k \in DOMAIN globals :
              k \in DOMAIN globals' /\ globals'[k] = globals[k]
        /\ globals' # globals =>
              /\ status = "loading"
              /\ pc' = pc + 1
              /\ ~Bound(globals, Program[pc].target)
              /\ DOMAIN globals' = DOMAIN globals \cup {Program[pc].target}
        /\ status = "loaded" =>
              /\ status' = "loaded"
              /\ globals' = globals
              /\ globals'[FEED_DOMAIN.target] = globals'[SITEURL.target]
        /\ \A i \in 1..Len(reads') :
              reads'[i].value = globals'[reads'[i].key]
      ]_vars

C7_Witness ==
    /\ status = "loaded"
    /\ Len(reads) = MaxReads
    /\ reads[1].key = FEED_DOMAIN.target
    /\ reads[MaxReads].key = SITEURL.target
    /\ reads[1].value = reads[MaxReads].value

-----------------------------------------------------------------------------
\* C8: the statements run top to bottom (the bound names are always those
\* of the statements before pc), the right-hand side of the statement about
\* to run only reads names that are bound, SITEURL is bound before
\* FEED_DOMAIN, and the load never ends in NameError.
C8_NamesBoundBeforeRead ==
    /\ status # "NameError"
    /\ DOMAIN globals = {Program[i].target : i \in 1..(pc - 1)}
    /\ (status = "loading" /\ pc <= Len(Program)) =>
          Defined(Program[pc].rhs, globals)
    /\ Bound(globals, FEED_DOMAIN.target) \/ pc = StmtIndex(FEED_DOMAIN.target) =>
          Bound(globals, SITEURL.target)

C8_Witness ==
    /\ status = "loading"
    /\ pc = StmtIndex(FEED_DOMAIN.target)
    /\ Program[pc].rhs.kind = "name"
    /\ Bound(globals, Program[pc].rhs.id)
    /\ ~Bound(globals, FEED_DOMAIN.target)

-----------------------------------------------------------------------------
\* C9: the seven path settings do not begin with '/', ARTICLE_URL and
\* CATEGORY_URL end with '/', the three *_SAVE_AS paths end with a
\* non-empty filename, SITEURL does not end with '/', and in SITEURL + '/'
\* + path the only doubled slash is the one of the URL scheme inside
\* SITEURL: the join adds none.
PathKeys ==
    { FEED_ALL_ATOM.target, CATEGORY_FEED_ATOM.target, ARTICLE_URL.target,
      ARTICLE_SAVE_AS.target, ARCHIVES_SAVE_AS.target, CATEGORY_URL.target,
      CATEGORY_SAVE_AS.target }
Join(base, path) == base \o <<"/">> \o path
SchemeSlashes(s) == {i \in DoubledSlashes(s) : i > 1 /\ s[i - 1] = ":"}

C9_RelativePathsJoinCleanly ==
    /\ Bound(globals, SITEURL.target) =>
          ~EndsWith(globals[SITEURL.target].str, <<"/">>)
    /\ \A k \in PathKeys : Bound(globals, k) =>
          /\ globals[k].str # <<>>
          /\ ~StartsWith(globals[k].str, <<"/">>)
          /\ EndsWith(k, <<"_","U","R","L">>) => EndsWith(globals[k].str, <<"/">>)
          /\ EndsWith(k, <<"_","S","A","V","E","_","A","S">>) => ~EndsWith(globals[k].str, <<"/">>)
          /\ DoubledSlashes(globals[k].str) = {}
          /\ DoubledSlashes(Join(globals[SITEURL.target].str, globals[k].str))
                = SchemeSlashes(globals[SITEURL.target].str)

C9_Witness ==
    /\ status = "loaded"
    /\ \A k \in PathKeys : IsStr(globals, k)
    /\ Join(globals[SITEURL.target].str, globals[ARTICLE_URL.target].str)
          = <<"h","t","t","p",":","/","/","m","r","-","b","y","t","e",".","g","i","t","h","u","b",".","i","o","/","b","l","o","g","/","b","l","o","g","/","{","d","a","t","e",":","%","Y","}","/","{","d","a","t","e",":","%","m","}","/","{","d","a","t","e",":","%","d","}","/","{","s","l","u","g","}","/">>
    /\ Cardinality(DoubledSlashes(globals[SITEURL.target].str)) = 1

=============================================================================
